---- MODULE Spec2Model ----
(***************************************************************************)
(* Model of the table-of-contents engine of GAZTank (src/utils/toc/toc.py).*)
(*                                                                         *)
(* Text is modelled as a sequence of one-character strings, so that the    *)
(* slug encoder, the identifier suffixing and the whitespace trimming are  *)
(* computed character by character as the Python code computes them.       *)
(***************************************************************************)
EXTENDS Integers, Sequences, FiniteSets, TLC

VARIABLES
    pc,             \* position of the scenario: the step reached or the last call made
    text,           \* slugify: the input text
    slug,           \* slugify: the returned identifier stem
    headings,       \* list of heading records (level, text, id)
    html_parts,     \* build_toc_structure: the lines emitted so far
    current_depth,  \* build_toc_structure: depth of the previous record
    open_lists,     \* build_toc_structure: number of open <ul> levels
    idx,            \* build_toc_structure: next record of toc_headings
    toc_html,       \* the navigation markup returned by build_toc_structure
    file,           \* the document on disk: content, modification times, permissions
    soup,           \* the parsed document (BeautifulSoup tree)
    injected,       \* return value of the last inject_toc call
    result,         \* (success, message) of the last per-file operation
    disk,           \* main: the configuration and the files of the environment directory
    batch,          \* main: arguments, file list, counters, printed lines, exit status
    pipeline        \* Pipeline: the steps added, the steps executed, the returned value

vars == <<pc, text, slug, headings, html_parts, current_depth, open_lists,
          idx, toc_html, file, soup, injected, result, disk, batch, pipeline>>

(***************************************************************************)
(* Bounds of the model.                                                    *)
(***************************************************************************)
MaxText == 3
MaxHeadings == 6
MaxNodes == 3
MaxDocNodes == 3
MaxNavs == 2

(***************************************************************************)
(* Characters and strings.                                                 *)
(***************************************************************************)
Upper == <<"A","B","C","D","E","F","G","H","I","J","K","L","M",
           "N","O","P","Q","R","S","T","U","V","W","X","Y","Z">>
Lower == <<"a","b","c","d","e","f","g","h","i","j","k","l","m",
           "n","o","p","q","r","s","t","u","v","w","x","y","z">>
DigitChars == <<"0","1","2","3","4","5","6","7","8","9">>

Range(s) == {s[i] : i \in 1..Len(s)}

\* str.lower() on one character
LowerChar(c) ==
    IF c \in Range(Upper)
    THEN Lower[CHOOSE i \in 1..Len(Upper) : Upper[i] = c]
    ELSE c

\* str.lower()
ToLower(s) == [i \in 1..Len(s) |-> LowerChar(s[i])]

\* ''.join(c if c in keep else '' for c in s)
RECURSIVE KeepOnly(_, _)
KeepOnly(s, keep) ==
    IF s = <<>> THEN <<>>
    ELSE (IF Head(s) \in keep THEN <<Head(s)>> ELSE <<>>) \o KeepOnly(Tail(s), keep)

\* str.lstrip(chars)
RECURSIVE LStrip(_, _)
LStrip(s, chars) ==
    IF s # <<>> /\ Head(s) \in chars THEN LStrip(Tail(s), chars) ELSE s

\* str.rstrip(chars)
RECURSIVE RStrip(_, _)
RStrip(s, chars) ==
    IF s # <<>> /\ s[Len(s)] \in chars THEN RStrip(SubSeq(s, 1, Len(s) - 1), chars) ELSE s

\* str.strip(chars)
StripChars(s, chars) == RStrip(LStrip(s, chars), chars)

\* str.replace(old, new) for a one-character old and new
ReplaceChar(s, old, new) == [i \in 1..Len(s) |-> IF s[i] = old THEN new ELSE s[i]]

\* '--' in text
HasDoubleHyphen(s) == \E i \in 1..(Len(s) - 1) : s[i] = "-" /\ s[i + 1] = "-"

\* text.replace('--', '-'): one left-to-right pass over non-overlapping matches
RECURSIVE ReplaceDoubleHyphen(_)
ReplaceDoubleHyphen(s) ==
    IF Len(s) < 2 THEN s
    ELSE IF s[1] = "-" /\ s[2] = "-"
         THEN <<"-">> \o ReplaceDoubleHyphen(SubSeq(s, 3, Len(s)))
         ELSE <<s[1]>> \o ReplaceDoubleHyphen(Tail(s))

\* while '--' in text: text = text.replace('--', '-')
RECURSIVE CollapseHyphens(_)
CollapseHyphens(s) ==
    IF HasDoubleHyphen(s) THEN CollapseHyphens(ReplaceDoubleHyphen(s)) ELSE s

\* Characters that open a tag after '<' for the HTML parser
TagStart == Range(Upper) \cup Range(Lower) \cup {"/", "!", "?"}

\* Skip the rest of a tag, up to and including its '>'
RECURSIVE SkipTag(_)
SkipTag(s) ==
    IF s = <<>> THEN <<>>
    ELSE IF Head(s) = ">" THEN Tail(s) ELSE SkipTag(Tail(s))

\* BeautifulSoup(text, 'lxml').get_text(): markup tags are dropped, text is kept
RECURSIVE GetText(_)
GetText(s) ==
    IF s = <<>> THEN <<>>
    ELSE IF Head(s) = "<" /\ Len(s) >= 2 /\ s[2] \in TagStart
         THEN GetText(SkipTag(Tail(s)))
         ELSE <<Head(s)>> \o GetText(Tail(s))

LeadingJunk == Range(DigitChars) \cup {".", ")", "]", "}", "\t", "\n", "\r", " "}

AllowedChars == Range(Lower) \cup Range(DigitChars) \cup {" ", "-", "_"}

SlugChars == Range(Lower) \cup Range(DigitChars) \cup {"-"}

\* Variant of slugify without the final strip of hyphens
slugify_nostrip(t) ==
    CollapseHyphens(
        ReplaceChar(
            ReplaceChar(
                KeepOnly(LStrip(ToLower(GetText(t)), LeadingJunk), AllowedChars),
                "_", "-"),
            " ", "-"))

\* slugify(text)
slugify(t) ==
    StripChars(
        CollapseHyphens(
            ReplaceChar(
                ReplaceChar(
                    KeepOnly(LStrip(ToLower(GetText(t)), LeadingJunk), AllowedChars),
                    "_", "-"),
                " ", "-")),
        {"-"})

(***************************************************************************)
(* Heading records and the lines of the navigation markup.                 *)
(***************************************************************************)
TocLevels == {"h2", "h3", "h4"}

\* int(heading['level'][1])
LevelNum(level) ==
    CASE level = "h1" -> 1
      [] level = "h2" -> 2
      [] level = "h3" -> 3
      [] level = "h4" -> 4
      [] level = "h5" -> 5
      [] level = "h6" -> 6

\* One element of html_parts: an opening tag, a closing tag, or a line holding
\* a complete element (the link of an entry, a button, a span)
Line(kind, tag, cls, indent) ==
    [kind |-> kind, tag |-> tag, cls |-> cls, indent |-> indent,
     href |-> <<>>, text |-> <<>>]

\* Variant of LinkLine whose target is made from the heading text
LinkLine_texttarget(indent, id, txt) ==
    [kind |-> "leaf", tag |-> "a", cls |-> "", indent |-> indent,
     href |-> txt, text |-> txt]

\* f'{indent}  <a href="#{heading["id"]}">{heading["text"]}</a>'
LinkLine(indent, id, txt) ==
    [kind |-> "leaf", tag |-> "a", cls |-> "", indent |-> indent,
     href |-> id, text |-> txt]

ContentUl == Line("open", "ul", "toc-section-content", 10)

\* The lines appended before the loop
TocHeader ==
    << Line("open", "nav", "table-of-contents", 0),
       Line("open", "div", "toc-header", 2),
       Line("open", "div", "toc-header-left", 4),
       Line("open", "ul", "", 6),
       Line("open", "li", "toc-section", 8),
       Line("open", "div", "toc-section-header", 10),
       Line("leaf", "button", "toc-section-toggle", 12),
       Line("leaf", "span", "toc-section-title", 12),
       Line("close", "div", "", 10),
       ContentUl >>

\* The lines appended after the closing loop
TocFooter ==
    << Line("close", "li", "", 8),
       Line("close", "ul", "", 6),
       Line("close", "div", "", 4),
       Line("open", "div", "toc-header-right", 4),
       Line("leaf", "button", "toc-toggle", 6),
       Line("close", "div", "", 4),
       Line("close", "div", "", 2),
       Line("close", "nav", "", 0) >>

\* n copies of the lines in s, one after the other
RECURSIVE Repeat(_, _)
Repeat(s, n) == IF n <= 0 THEN <<>> ELSE s \o Repeat(s, n - 1)

\* [h for h in headings if h['level'] in ['h2', 'h3', 'h4']]
RECURSIVE TocHeadings(_)
TocHeadings(hs) ==
    IF hs = <<>> THEN <<>>
    ELSE (IF Head(hs).level \in TocLevels THEN <<Head(hs)>> ELSE <<>>)
         \o TocHeadings(Tail(hs))

\* Variant of BuildInit that does not count the contents list as open
BuildInit_noopen == [parts |-> TocHeader, depth |-> 2, open |-> 0]

\* State of the builder before the loop
BuildInit == [parts |-> TocHeader, depth |-> 2, open |-> 1]

\* Lines emitted when the depth changes, before the entry itself
DepthLines(st, level_num) ==
    IF level_num > st.depth
    THEN Repeat(<<Line("open", "ul", "", 12)>>, level_num - st.depth)
    ELSE IF level_num < st.depth
    THEN Repeat(<<Line("close", "ul", "", 12), Line("close", "li", "", 10)>>,
                st.depth - level_num)
    ELSE IF st.parts[Len(st.parts)] # ContentUl
    THEN <<Line("close", "li", "", 10)>>
    ELSE <<>>

\* Variant of BuildEntry that does not decrement open_lists when going shallower
BuildEntry_nodecrement(st, h) ==
    LET level_num == LevelNum(h.level)
        open      == IF level_num > st.depth
                     THEN st.open + (level_num - st.depth)
                     ELSE st.open
        indent    == 2 * (open + 5)
    IN  [parts |-> st.parts \o DepthLines(st, level_num)
                   \o << Line("open", "li", "", indent),
                         LinkLine(indent + 2, h.id, h.text) >>,
         depth |-> level_num,
         open  |-> open]

\* One iteration of "for heading in toc_headings"
BuildEntry(st, h) ==
    LET level_num == LevelNum(h.level)
        open      == st.open + (level_num - st.depth)
        indent    == 2 * (open + 5)
    IN  [parts |-> st.parts \o DepthLines(st, level_num)
                   \o << Line("open", "li", "", indent),
                         LinkLine(indent + 2, h.id, h.text) >>,
         depth |-> level_num,
         open  |-> open]

\* One iteration of "while open_lists > 0"
BuildCloseOne(st) ==
    [parts |-> st.parts \o <<Line("close", "li", "", 10), Line("close", "ul", "", 10)>>,
     depth |-> st.depth,
     open  |-> st.open - 1]

RECURSIVE BuildEntries(_, _)
BuildEntries(st, hs) ==
    IF hs = <<>> THEN st ELSE BuildEntries(BuildEntry(st, Head(hs)), Tail(hs))

RECURSIVE BuildCloseAll(_)
BuildCloseAll(st) ==
    IF st.open > 0 THEN BuildCloseAll(BuildCloseOne(st)) ELSE st

\* build_toc_structure(headings): the lines of the returned markup, <<>> for ""
build_toc_structure(hs) ==
    IF TocHeadings(hs) = <<>> THEN <<>>
    ELSE BuildCloseAll(BuildEntries(BuildInit, TocHeadings(hs))).parts \o TocFooter

(***************************************************************************)
(* Documents.  A document is the sequence of its elements in document      *)
(* order; a parsed document (soup) also holds, before the <html> element    *)
(* that the lxml parser wraps the content in, what was inserted there.      *)
(***************************************************************************)
\* An element: a heading h1..h6 with its text and id attribute, a paragraph,
\* or a <nav class="table-of-contents"> block holding the lines of its markup
Node(tag, txt, hasId, id, parts) ==
    [tag |-> tag, text |-> txt, hasId |-> hasId, id |-> id, parts |-> parts]

Heading(tag, txt) == Node(tag, txt, FALSE, <<>>, <<>>)
HeadingWithId(tag, txt, id) == Node(tag, txt, TRUE, id, <<>>)
Para == Node("p", <<>>, FALSE, <<>>, <<>>)
Nav(parts) == Node("nav", <<>>, FALSE, <<>>, parts)

\* BeautifulSoup(html_content, 'lxml'): the content becomes the children of
\* <html><body>; an empty document yields no <html> element at all
Parse(content) == [nodes |-> content, nTop |-> 0, hasHtml |-> content # <<>>]

\* soup.find_all(tag_name): positions of the elements, in document order
FindAll(sp, tag) == {i \in 1..Len(sp.nodes) : sp.nodes[i].tag = tag}

\* soup.find(tag_name): position of the first such element, 0 for None
Find(sp, tag) ==
    IF FindAll(sp, tag) = {} THEN 0
    ELSE CHOOSE i \in FindAll(sp, tag) : \A j \in FindAll(sp, tag) : i <= j

\* A set of positions as the ascending sequence of its elements
RECURSIVE SortedSeq(_)
SortedSeq(S) ==
    IF S = {} THEN <<>>
    ELSE LET m == CHOOSE i \in S : \A j \in S : i <= j
         IN  <<m>> \o SortedSeq(S \ {m})

\* The sequence s without its element at position i
RemoveAt(s, i) == SubSeq(s, 1, i - 1) \o SubSeq(s, i + 1, Len(s))

\* The sequence s with x inserted so that it becomes element i
InsertAt(s, i, x) == SubSeq(s, 1, i - 1) \o <<x>> \o SubSeq(s, i, Len(s))

Whitespace == {" ", "\t", "\n", "\r", "\f"}

\* f"{counter}"
RECURSIVE Decimal(_)
Decimal(n) ==
    IF n < 10 THEN <<DigitChars[n + 1]>>
    ELSE Decimal(n \div 10) \o <<DigitChars[(n % 10) + 1]>>

\* while heading_id in used_ids: heading_id = f"{base_id}-{counter}"; counter += 1
RECURSIVE NextFreeId(_, _, _)
NextFreeId(base_id, counter, used_ids) ==
    LET heading_id == base_id \o <<"-">> \o Decimal(counter)
    IN  IF heading_id \in used_ids
        THEN NextFreeId(base_id, counter + 1, used_ids)
        ELSE heading_id

\* Variant of UniqueId without the uniqueness loop
UniqueId_nocheck(base_id, used_ids) == base_id

\* Variant of UniqueId whose counter starts at 2
UniqueId_from2(base_id, used_ids) ==
    IF base_id \in used_ids THEN NextFreeId(base_id, 2, used_ids) ELSE base_id

\* The identifier given to a heading whose slug is base_id
UniqueId(base_id, used_ids) ==
    IF base_id \in used_ids THEN NextFreeId(base_id, 1, used_ids) ELSE base_id

\* Variant of VisitOrder that visits the h2/h3/h4 headings in document order
VisitOrder_docorder(sp) ==
    SortedSeq(FindAll(sp, "h2") \cup FindAll(sp, "h3") \cup FindAll(sp, "h4"))

\* Variant of VisitOrder whose list of tag names also holds h5
VisitOrder_withh5(sp) ==
    SortedSeq(FindAll(sp, "h2")) \o SortedSeq(FindAll(sp, "h3"))
        \o SortedSeq(FindAll(sp, "h4")) \o SortedSeq(FindAll(sp, "h5"))

\* Order in which add_ids_to_headings visits the headings:
\* for tag_name in ['h2', 'h3', 'h4']: for heading in soup.find_all(tag_name)
VisitOrder(sp) ==
    SortedSeq(FindAll(sp, "h2")) \o SortedSeq(FindAll(sp, "h3"))
        \o SortedSeq(FindAll(sp, "h4"))

\* The body of the inner loop for the heading at position p
AddId(st, p) ==
    LET txt        == StripChars(st.soup.nodes[p].text, Whitespace)
        heading_id == UniqueId(slugify(txt), st.used_ids)
    IN  [soup     |-> [st.soup EXCEPT !.nodes[p].hasId = TRUE,
                                      !.nodes[p].id = heading_id],
         used_ids |-> st.used_ids \cup {heading_id},
         headings |-> Append(st.headings,
                             [level |-> st.soup.nodes[p].tag, text |-> txt,
                              id |-> heading_id, element |-> p])]

RECURSIVE AddIdsLoop(_, _)
AddIdsLoop(st, order) ==
    IF order = <<>> THEN st ELSE AddIdsLoop(AddId(st, Head(order)), Tail(order))

\* add_ids_to_headings(soup): the mutated soup and the returned list
add_ids_to_headings(sp) ==
    AddIdsLoop([soup |-> sp, used_ids |-> {}, headings |-> <<>>], VisitOrder(sp))

(***************************************************************************)
(* Document Mutator: inject_toc, remove_existing_toc,                      *)
(* remove_ids_from_headings.                                               *)
(***************************************************************************)
\* toc_soup.find('nav', class_='table-of-contents') on the parsed markup
HasTocNav(toc) ==
    \E i \in 1..Len(toc) :
        toc[i].kind = "open" /\ toc[i].tag = "nav" /\ toc[i].cls = "table-of-contents"

\* Number of navigation blocks of a parsed document
NavCount(sp) == Cardinality(FindAll(sp, "nav"))

\* inject_toc(soup, toc_html): the mutated soup and the returned flag
inject_toc(sp, toc) ==
    IF toc = <<>> THEN [soup |-> sp, injected |-> FALSE]
    ELSE IF Find(sp, "h1") # 0
    THEN \* h1.insert_after(toc_nav)
         IF HasTocNav(toc)
         THEN [soup |-> [sp EXCEPT !.nodes = InsertAt(sp.nodes, Find(sp, "h1") + 1, Nav(toc))],
               injected |-> TRUE]
         ELSE [soup |-> sp, injected |-> FALSE]
    ELSE \* the first Tag child of the soup is the <html> element, or what an
         \* earlier call inserted before it: first_element.insert_before(toc_nav)
         IF (sp.nTop > 0 \/ sp.hasHtml) /\ HasTocNav(toc)
         THEN [soup |-> [sp EXCEPT !.nodes = InsertAt(sp.nodes, 1, Nav(toc)),
                                   !.nTop = sp.nTop + 1],
               injected |-> TRUE]
         ELSE [soup |-> sp, injected |-> FALSE]

\* remove_existing_toc(soup): soup.find(...) and decompose() of that one element
remove_existing_toc(sp) ==
    IF Find(sp, "nav") = 0 THEN sp
    ELSE [sp EXCEPT !.nodes = RemoveAt(sp.nodes, Find(sp, "nav")),
                    !.nTop = IF Find(sp, "nav") <= sp.nTop THEN sp.nTop - 1 ELSE sp.nTop]

\* Positions of the h2/h3/h4 headings that carry an id attribute
HeadingsWithIds(sp) ==
    {i \in 1..Len(sp.nodes) : sp.nodes[i].tag \in TocLevels /\ sp.nodes[i].hasId}

\* remove_ids_from_headings(soup): the mutated soup and the returned count
remove_ids_from_headings(sp) ==
    [soup  |-> [sp EXCEPT !.nodes =
                   [i \in 1..Len(sp.nodes) |->
                       IF i \in HeadingsWithIds(sp)
                       THEN [sp.nodes[i] EXCEPT !.hasId = FALSE, !.id = <<>>]
                       ELSE sp.nodes[i]]],
     count |-> Cardinality(HeadingsWithIds(sp))]

\* ''.join(str(child) for child in body.children), or str(soup) without a body
Serialize(sp) ==
    IF sp.hasHtml THEN SubSeq(sp.nodes, sp.nTop + 1, Len(sp.nodes)) ELSE sp.nodes

(***************************************************************************)
(* Per-file operations.                                                    *)
(***************************************************************************)
MaxTime == 2

\* Modification time that a write gives a file: later than every earlier time
Now == MaxTime + 1

Msg(txt, counts) == [text |-> txt, counts |-> counts]

\* "Skipped" in message
IsSkipped(message) ==
    message.text \in {"Skipped (up-to-date)",
                      "Skipped (already processed, use --force to regenerate)",
                      "Skipped (no h2/h3/h4 headings)",
                      "Skipped (no TOC or IDs found)"}

Outcome(op, dry_run, force, success, message, wrote) ==
    [op |-> op, dry_run |-> dry_run, force |-> force,
     success |-> success, message |-> message, wrote |-> wrote]

NoOutcome == Outcome("none", FALSE, FALSE, TRUE, Msg("", <<>>), FALSE)

\* file_path.write_text(html_output): the new content and modification time
WriteText(f, content) == [f EXCEPT !.content = content, !.mtime = Now]

CountLevel(hs, level) == Cardinality({i \in 1..Len(hs) : hs[i].level = level})

\* Lines 419-425 of process_html_file: the timestamp rule of the change detector
\* (variant that does not look at force)
UpToDate_ignoreforce(f, force) == f.src_found /\ f.mtime >= f.src_mtime

\* Lines 419-425 of process_html_file: the timestamp rule of the change detector
UpToDate(f, force) == ~force /\ f.src_found /\ f.mtime >= f.src_mtime

\* Variant of AlreadyProcessed that does not count the heading ids
AlreadyProcessed_navonly(sp, force) == ~force /\ Find(sp, "nav") # 0

\* Variant of AlreadyProcessed that counts the ids of h2 headings only
AlreadyProcessed_h2only(sp, force) ==
    /\ ~force
    /\ Find(sp, "nav") # 0
    /\ \E i \in HeadingsWithIds(sp) : sp.nodes[i].tag = "h2"

\* Lines 433-447 of process_html_file: the marker rule of the change detector
AlreadyProcessed(sp, force) ==
    ~force /\ Find(sp, "nav") # 0 /\ Cardinality(HeadingsWithIds(sp)) > 0

\* Variant of ProcessTail that writes the file in a dry run too
ProcessTail_alwayswrite(f, sp, hs, dry_run, force) ==
    LET inj    == inject_toc(sp, build_toc_structure(hs))
        counts == <<CountLevel(hs, "h2"), CountLevel(hs, "h3"), CountLevel(hs, "h4")>>
    IN  IF ~inj.injected
        THEN [file |-> f,
              out  |-> Outcome("process", dry_run, force, FALSE,
                               Msg("Failed to inject TOC", <<>>), FALSE)]
        ELSE IF ~f.writable
        THEN [file |-> f,
              out  |-> Outcome("process", dry_run, force, FALSE, Msg("Error", <<>>), FALSE)]
        ELSE [file |-> WriteText(f, Serialize(inj.soup)),
              out  |-> Outcome("process", dry_run, force, TRUE,
                               Msg("TOC added", counts), TRUE)]

\* Lines 466-497 of process_html_file: build, inject, write, report
ProcessTail(f, sp, hs, dry_run, force) ==
    LET inj    == inject_toc(sp, build_toc_structure(hs))
        counts == <<CountLevel(hs, "h2"), CountLevel(hs, "h3"), CountLevel(hs, "h4")>>
    IN  IF ~inj.injected
        THEN [file |-> f,
              out  |-> Outcome("process", dry_run, force, FALSE,
                               Msg("Failed to inject TOC", <<>>), FALSE)]
        ELSE IF dry_run
        THEN [file |-> f,
              out  |-> Outcome("process", dry_run, force, TRUE,
                               Msg("TOC added", counts), FALSE)]
        ELSE IF ~f.writable
        THEN [file |-> f,
              out  |-> Outcome("process", dry_run, force, FALSE, Msg("Error", <<>>), FALSE)]
        ELSE [file |-> WriteText(f, Serialize(inj.soup)),
              out  |-> Outcome("process", dry_run, force, TRUE,
                               Msg("TOC added", counts), TRUE)]

\* process_html_file(file_path, dry_run, force): the file afterwards and the result
process_html_file(f, dry_run, force) ==
    LET sp  == Parse(f.content)
        idd == add_ids_to_headings(remove_existing_toc(sp))
    IN  IF ~f.readable
        THEN [file |-> f,
              out  |-> Outcome("process", dry_run, force, FALSE, Msg("Error", <<>>), FALSE)]
        ELSE IF UpToDate(f, force)
        THEN [file |-> f,
              out  |-> Outcome("process", dry_run, force, TRUE,
                               Msg("Skipped (up-to-date)", <<>>), FALSE)]
        ELSE IF AlreadyProcessed(sp, force)
        THEN [file |-> f,
              out  |-> Outcome("process", dry_run, force, TRUE,
                               Msg("Skipped (already processed, use --force to regenerate)",
                                   <<>>), FALSE)]
        ELSE IF TocHeadings(idd.headings) = <<>>
        THEN [file |-> f,
              out  |-> Outcome("process", dry_run, force, TRUE,
                               Msg("Skipped (no h2/h3/h4 headings)", <<>>), FALSE)]
        ELSE ProcessTail(f, idd.soup, idd.headings, dry_run, force)

\* Variant of strip_toc_from_file without the second "anything changed" check
strip_toc_from_file_nocheck(f, dry_run, force) ==
    LET sp      == Parse(f.content)
        has_toc == Find(sp, "nav") # 0
        rem     == remove_ids_from_headings(remove_existing_toc(sp))
        done    == Msg("stripped", <<IF has_toc THEN 1 ELSE 0, rem.count>>)
    IN  IF ~f.readable
        THEN [file |-> f,
              out  |-> Outcome("strip", dry_run, force, FALSE, Msg("Error", <<>>), FALSE)]
        ELSE IF ~force /\ ~has_toc /\ Cardinality(HeadingsWithIds(sp)) = 0
        THEN [file |-> f,
              out  |-> Outcome("strip", dry_run, force, TRUE,
                               Msg("Skipped (no TOC or IDs found)", <<>>), FALSE)]
        ELSE IF dry_run
        THEN [file |-> f, out |-> Outcome("strip", dry_run, force, TRUE, done, FALSE)]
        ELSE IF ~f.writable
        THEN [file |-> f,
              out  |-> Outcome("strip", dry_run, force, FALSE, Msg("Error", <<>>), FALSE)]
        ELSE [file |-> WriteText(f, Serialize(rem.soup)),
              out  |-> Outcome("strip", dry_run, force, TRUE, done, TRUE)]

\* strip_toc_from_file(file_path, dry_run, force): the file afterwards and the result
strip_toc_from_file(f, dry_run, force) ==
    LET sp      == Parse(f.content)
        has_toc == Find(sp, "nav") # 0
        rem     == remove_ids_from_headings(remove_existing_toc(sp))
        done    == Msg("stripped", <<IF has_toc THEN 1 ELSE 0, rem.count>>)
    IN  IF ~f.readable
        THEN [file |-> f,
              out  |-> Outcome("strip", dry_run, force, FALSE, Msg("Error", <<>>), FALSE)]
        ELSE IF ~force /\ ~has_toc /\ Cardinality(HeadingsWithIds(sp)) = 0
        THEN [file |-> f,
              out  |-> Outcome("strip", dry_run, force, TRUE,
                               Msg("Skipped (no TOC or IDs found)", <<>>), FALSE)]
        ELSE IF ~has_toc /\ rem.count = 0
        THEN [file |-> f,
              out  |-> Outcome("strip", dry_run, force, TRUE,
                               Msg("Skipped (no TOC or IDs found)", <<>>), FALSE)]
        ELSE IF dry_run
        THEN [file |-> f, out |-> Outcome("strip", dry_run, force, TRUE, done, FALSE)]
        ELSE IF ~f.writable
        THEN [file |-> f,
              out  |-> Outcome("strip", dry_run, force, FALSE, Msg("Error", <<>>), FALSE)]
        ELSE [file |-> WriteText(f, Serialize(rem.soup)),
              out  |-> Outcome("strip", dry_run, force, TRUE, done, TRUE)]

(***************************************************************************)
(* The batch driver: scan_html_files and main.                             *)
(*                                                                         *)
(* A path is the sequence of its components below the environment          *)
(* directory, each component a sequence of characters.                     *)
(***************************************************************************)
MaxFiles == 3

\* ord(c) for the characters of the file names
CodePoint(c) ==
    CASE c = "-" -> 45
      [] c = "." -> 46
      [] OTHER   -> 96 + (CHOOSE i \in 1..Len(Lower) : Lower[i] = c)

\* a < b on two strings
RECURSIVE StrLess(_, _)
StrLess(a, b) ==
    IF a = <<>> THEN b # <<>>
    ELSE IF b = <<>> THEN FALSE
    ELSE IF Head(a) = Head(b) THEN StrLess(Tail(a), Tail(b))
    ELSE CodePoint(Head(a)) < CodePoint(Head(b))

\* p < q on two Path objects: their lists of components are compared
RECURSIVE PathLess(_, _)
PathLess(p, q) ==
    IF p = <<>> THEN q # <<>>
    ELSE IF q = <<>> THEN FALSE
    ELSE IF Head(p) = Head(q) THEN PathLess(Tail(p), Tail(q))
    ELSE StrLess(Head(p), Head(q))

\* html_file.name
Name(path) == path[Len(path)]

EndsWith(s, suffix) ==
    /\ Len(s) >= Len(suffix)
    /\ SubSeq(s, Len(s) - Len(suffix) + 1, Len(s)) = suffix

DotHtml == <<".", "h", "t", "m", "l">>

IndexHtml == <<"i", "n", "d", "e", "x">> \o DotHtml

\* All orders in which the elements of S can be listed
Listings(S) ==
    {l \in [1..Cardinality(S) -> S] : \A i, j \in 1..Cardinality(S) : l[i] = l[j] => i = j}

\* src_dir.rglob('*.html'): the matching files, in an order the file system chooses
Rglob(files) == Listings({path \in DOMAIN files : EndsWith(Name(path), DotHtml)})

\* The loop of scan_html_files: the files that are not named index.html
RECURSIVE SkipIndex(_)
SkipIndex(listing) ==
    IF listing = <<>> THEN <<>>
    ELSE IF Name(Head(listing)) = IndexHtml THEN SkipIndex(Tail(listing))
    ELSE <<Head(listing)>> \o SkipIndex(Tail(listing))

\* sorted(html_files)
RECURSIVE SortPaths(_)
SortPaths(paths) ==
    IF paths = <<>> THEN <<>>
    ELSE LET rest  == SortPaths(Tail(paths))
             front == SelectSeq(rest, LAMBDA q : ~PathLess(Head(paths), q))
             back  == SelectSeq(rest, LAMBDA q : PathLess(Head(paths), q))
         IN  front \o <<Head(paths)>> \o back

\* Variant of scan_html_files that returns the files in the order of the listing
scan_html_files_unsorted(listing) == SkipIndex(listing)

scan_html_files(listing) == SortPaths(SkipIndex(listing))

\* The printed line of one file
OutputLine(rel_path, success, message, counted) ==
    [rel_path |-> rel_path, success |-> success, message |-> message, counted |-> counted]

\* Variant of Tally that counts a skipped file as processed
Tally_skipasprocessed(b, rel_path, success, message) ==
    IF success
    THEN [b EXCEPT !.success_count = @ + 1,
                   !.output = Append(@, OutputLine(rel_path, success, message, "processed"))]
    ELSE [b EXCEPT !.error_count = @ + 1,
                   !.output = Append(@, OutputLine(rel_path, success, message, "error"))]

\* Lines 670-692 of main: count the result of one file and print its line
Tally(b, rel_path, success, message) ==
    IF success
    THEN IF IsSkipped(message)
         THEN [b EXCEPT !.skip_count = @ + 1,
                        !.output = Append(@, OutputLine(rel_path, success, message, "skipped"))]
         ELSE [b EXCEPT !.success_count = @ + 1,
                        !.output = Append(@, OutputLine(rel_path, success, message, "processed"))]
    ELSE [b EXCEPT !.error_count = @ + 1,
                   !.output = Append(@, OutputLine(rel_path, success, message, "error"))]

\* Variant of ExitStatus that treats a skipped file as a failure
ExitStatus_skipfails(b) == IF b.error_count + b.skip_count > 0 THEN 1 ELSE 0

\* Lines 708-717 of main: the value returned after the summary
ExitStatus(b) == IF b.error_count > 0 THEN 1 ELSE 0

Args(strip, dry_run, force) == [strip |-> strip, dry_run |-> dry_run, force |-> force]

\* The locals of main before the first statement
NoBatch ==
    [args |-> Args(FALSE, FALSE, FALSE), html_files |-> <<>>, next |-> 1,
     success_count |-> 0, skip_count |-> 0, error_count |-> 0,
     output |-> <<>>, status |-> 0]

Disk(config_ok, exists, files) ==
    [config_ok |-> config_ok, exists |-> exists, files |-> files]

NoDisk == Disk(TRUE, TRUE, <<>>)

(***************************************************************************)
(* The build pipeline: PipelineStep.execute and Pipeline.execute_all       *)
(* (src/utils/gzbuild/builder.py).                                         *)
(***************************************************************************)
MaxSteps == 3

\* What the main function of a step does when it is called: it returns a
\* value, raises SystemExit with a code, or raises another exception
Returns(code) == [kind |-> "return", code |-> code]
Exits(code) == [kind |-> "exit", code |-> code]
Raises == [kind |-> "raise", code |-> 1]

\* PipelineStep(icon, module_name, main_func, description)
PipelineStep(module_name, main_func) ==
    [module_name |-> module_name, main_func |-> main_func]

\* toc_main: the main of the TOC step returns its exit status
toc_main(b) == Returns(ExitStatus(b))

\* PipelineStep.execute: "True", "False", or "raised" when the exception of
\* the main function is not a SystemExit and leaves execute
StepExecute(step) ==
    CASE step.main_func.kind = "return" -> "True"
      [] step.main_func.kind = "exit"   ->
             IF step.main_func.code # 0 THEN "False" ELSE "True"
      [] OTHER                          -> "raised"

\* Pipeline(): no steps, execute_all not called
NoPipeline == [steps |-> <<>>, step_num |-> 0, executed |-> <<>>, returned |-> "none"]

(***************************************************************************)
(* Inputs.                                                                 *)
(***************************************************************************)
\* All sequences over S of length at most n
BoundedSeq(S, n) == UNION {[1..k -> S] : k \in 0..n}

\* The example of the docstring of slugify: "1. Meta Tags (index.html)"
MetaTagsText ==
    <<"1", ".", " ", "M", "e", "t", "a", " ", "T", "a", "g", "s", " ",
      "(", "i", "n", "d", "e", "x", ".", "h", "t", "m", "l", ")">>

\* "meta-tags-index-html"
MetaTagsSlug ==
    <<"m", "e", "t", "a", "-", "t", "a", "g", "s", "-",
      "i", "n", "d", "e", "x", "-", "h", "t", "m", "l">>

TxtOverview == <<"O", "v", "e", "r", "v", "i", "e", "w">>
TxtOverview1 == <<"O", "v", "e", "r", "v", "i", "e", "w", " ", "1">>
TxtOverviewCaps == <<" ", "O", "V", "E", "R", "V", "I", "E", "W">>
TxtBangs == <<"!", "?">>
TxtSetup == <<"S", "e", "t", "u", "p">>
TxtInstall == <<"I", "n", "s", "t", "a", "l", "l">>
TxtConfigure == <<"C", "o", "n", "f", "i", "g", "u", "r", "e">>
TxtUsage == <<"U", "s", "a", "g", "e">>

SlugAlphabet == {"a", "B", "7", ".", ")", " ", "-", "_", "(", "<", ">", "!"}

SlugInputs ==
    BoundedSeq(SlugAlphabet, MaxText)
        \cup {MetaTagsText, TxtOverview, TxtOverview1, TxtOverviewCaps, TxtBangs}

\* A heading record as the builder receives it
Record(level, i) ==
    [level |-> level, text |-> <<"S", " ">> \o Decimal(i),
     id |-> <<"s", "-">> \o Decimal(i), element |-> i]

BuildInputs ==
    {[i \in 1..Len(ls) |-> Record(ls[i], i)] : ls \in BoundedSeq(TocLevels, MaxHeadings)}

\* A navigation block left in a document by an earlier run
OldNav == Nav(build_toc_structure(<<Record("h2", 1)>>))

IndexTexts == {TxtOverview, TxtOverview1, TxtOverviewCaps, TxtBangs}

IndexPool ==
    {Heading(l, t) : l \in {"h2", "h3"}, t \in IndexTexts}
        \cup {Heading("h4", TxtOverview), Heading("h1", TxtOverview),
              HeadingWithId("h5", TxtOverview, <<"x">>)}

IndexDocs == BoundedSeq(IndexPool, MaxNodes)

\* The scenario document: H2 "Setup", H3 "Install", H3 "Configure", H2 "Usage"
ScenarioDoc ==
    <<Heading("h2", TxtSetup), Heading("h3", TxtInstall),
      Heading("h3", TxtConfigure), Heading("h2", TxtUsage)>>

DocPool ==
    {Heading("h1", TxtOverview), Heading("h2", TxtSetup),
     HeadingWithId("h3", TxtSetup, <<"o", "l", "d">>), OldNav, Para}

Docs == BoundedSeq(DocPool, MaxDocNodes) \cup {ScenarioDoc}

File(content, src_found, src_mtime, readable, writable) ==
    [content |-> content, mtime |-> 1, src_found |-> src_found,
     src_mtime |-> src_mtime, readable |-> readable, writable |-> writable]

NoFile == File(<<>>, FALSE, 0, TRUE, TRUE)

\* Files with and without an identified source, older or newer than the
\* document, and files that cannot be written or cannot be read
Files ==
    {File(d, FALSE, 0, TRUE, w) : d \in Docs, w \in BOOLEAN}
        \cup {File(d, TRUE, t, TRUE, TRUE) : d \in Docs, t \in 0..MaxTime}
        \cup {File(d, FALSE, 0, FALSE, TRUE) : d \in Docs}

(***************************************************************************)
(* Specification of the slug encoder.                                      *)
(***************************************************************************)
\* Paths of the environment directory: a file in a folder, a file whose name
\* extends the folder's name, an index.html, a file that is not HTML
Html(stem) == stem \o DotHtml

PathPool ==
    {<<<<"a">>, Html(<<"b">>)>>,
     <<Html(<<"a", "-", "b">>)>>,
     <<Html(<<"b">>)>>,
     <<IndexHtml>>,
     <<<<"b", ".", "t", "x", "t">>>>}

\* A document to index, one already indexed, one without headings; a file
\* that cannot be written and one that cannot be read
BatchFiles ==
    {File(<<Heading("h1", TxtOverview), Heading("h2", TxtSetup)>>, FALSE, 0, TRUE, TRUE),
     File(<<Heading("h1", TxtOverview), OldNav,
            HeadingWithId("h3", TxtSetup, <<"o", "l", "d">>)>>, FALSE, 0, TRUE, TRUE),
     File(<<Para>>, FALSE, 0, TRUE, TRUE),
     File(<<Heading("h1", TxtOverview), Heading("h2", TxtSetup)>>, FALSE, 0, TRUE, FALSE),
     File(<<Heading("h2", TxtSetup)>>, FALSE, 0, FALSE, TRUE)}

Directories(n) ==
    UNION {[D -> BatchFiles] : D \in {S \in SUBSET PathPool : Cardinality(S) <= n}}

\* Environments: a loaded configuration with its directory, a configuration
\* that fails to load, a directory that does not exist
Disks ==
    {Disk(TRUE, TRUE, files) : files \in Directories(MaxFiles)}
        \cup {Disk(FALSE, TRUE, files) : files \in Directories(1)}
        \cup {Disk(TRUE, FALSE, <<>>)}

\* Counters of a TOC run without and with a file that ended in failure
TocRuns == {[NoBatch EXCEPT !.error_count = n] : n \in 0..1}

\* Steps of the pipeline: the TOC step and the two steps added after it
StepPool ==
    {PipelineStep("toc", toc_main(b)) : b \in TocRuns}
        \cup {PipelineStep(m, f) :
                  m \in {"package", "deploy"},
                  f \in {Returns(0), Exits(0), Exits(1), Raises}}

slugVars == <<text, slug>>
buildVars == <<html_parts, current_depth, open_lists, idx>>
docVars == <<file, soup, injected, result>>
batchVars == <<disk, batch>>

InitSlug ==
    /\ pc = "slug_input"
    /\ text \in SlugInputs
    /\ slug = <<>>
    /\ headings = <<>>
    /\ html_parts = <<>> /\ current_depth = 0 /\ open_lists = 0 /\ idx = 0
    /\ toc_html = <<>>
    /\ file = NoFile /\ soup = Parse(<<>>) /\ injected = FALSE /\ result = NoOutcome
    /\ disk = NoDisk /\ batch = NoBatch
    /\ pipeline = NoPipeline

Slugify ==
    /\ pc = "slug_input"
    /\ slug' = slugify(text)
    /\ pc' = "slug_done"
    /\ UNCHANGED <<pipeline, batchVars, text, headings, buildVars, toc_html, docVars>>

NextSlug == Slugify

SpecSlug == InitSlug /\ [][NextSlug]_vars

(***************************************************************************)
(* Specification of the hierarchy builder, one loop iteration per step.    *)
(***************************************************************************)
InitBuild ==
    /\ pc = "build_start"
    /\ headings \in BuildInputs
    /\ text = <<>> /\ slug = <<>>
    /\ html_parts = <<>> /\ current_depth = 0 /\ open_lists = 0 /\ idx = 0
    /\ toc_html = <<>>
    /\ file = NoFile /\ soup = Parse(<<>>) /\ injected = FALSE /\ result = NoOutcome
    /\ disk = NoDisk /\ batch = NoBatch
    /\ pipeline = NoPipeline

\* Lines 129-154: the early returns and the lines before the loop
BuildStart ==
    /\ pc = "build_start"
    /\ IF TocHeadings(headings) = <<>>
       THEN /\ pc' = "build_done"
            /\ UNCHANGED buildVars
       ELSE /\ pc' = "build_loop"
            /\ html_parts' = BuildInit.parts
            /\ current_depth' = BuildInit.depth
            /\ open_lists' = BuildInit.open
            /\ idx' = 1
    /\ toc_html' = <<>>
    /\ UNCHANGED <<pipeline, batchVars, slugVars, headings, docVars>>

BuildState == [parts |-> html_parts, depth |-> current_depth, open |-> open_lists]

\* Lines 156-181: one iteration of the for loop
BuildLoop ==
    /\ pc = "build_loop"
    /\ idx <= Len(TocHeadings(headings))
    /\ LET st == BuildEntry(BuildState, TocHeadings(headings)[idx])
       IN  /\ html_parts' = st.parts
           /\ current_depth' = st.depth
           /\ open_lists' = st.open
    /\ idx' = idx + 1
    /\ UNCHANGED <<pipeline, batchVars, pc, slugVars, headings, toc_html, docVars>>

\* Lines 184-187: one iteration of the closing loop
BuildClose ==
    /\ pc \in {"build_loop", "build_close"}
    /\ idx > Len(TocHeadings(headings))
    /\ open_lists > 0
    /\ LET st == BuildCloseOne(BuildState)
       IN  /\ html_parts' = st.parts
           /\ open_lists' = st.open
    /\ pc' = "build_close"
    /\ UNCHANGED <<pipeline, batchVars, current_depth, idx, slugVars, headings, toc_html, docVars>>

\* Lines 189-202: the closing lines and the return
BuildFinish ==
    /\ pc \in {"build_loop", "build_close"}
    /\ idx > Len(TocHeadings(headings))
    /\ open_lists <= 0
    /\ html_parts' = html_parts \o TocFooter
    /\ toc_html' = html_parts'
    /\ pc' = "build_done"
    /\ UNCHANGED <<pipeline, batchVars, current_depth, open_lists, idx, slugVars, headings, docVars>>

NextBuild == BuildStart \/ BuildLoop \/ BuildClose \/ BuildFinish

SpecBuild == InitBuild /\ [][NextBuild]_vars

(***************************************************************************)
(* Specification of the heading indexer.                                   *)
(***************************************************************************)
InitIndex ==
    /\ pc = "parsed"
    /\ soup \in {Parse(d) : d \in IndexDocs}
    /\ text = <<>> /\ slug = <<>>
    /\ headings = <<>>
    /\ html_parts = <<>> /\ current_depth = 0 /\ open_lists = 0 /\ idx = 0
    /\ toc_html = <<>>
    /\ file = NoFile /\ injected = FALSE /\ result = NoOutcome
    /\ disk = NoDisk /\ batch = NoBatch
    /\ pipeline = NoPipeline

\* headings = add_ids_to_headings(soup)
AddIds ==
    /\ LET r == add_ids_to_headings(soup)
       IN  /\ soup' = r.soup
           /\ headings' = r.headings
    /\ pc' = "add_ids"
    /\ UNCHANGED <<pipeline, batchVars, slugVars, buildVars, toc_html, file, injected, result>>

\* remove_ids_from_headings(soup)
RemoveIds ==
    /\ soup' = remove_ids_from_headings(soup).soup
    /\ pc' = "remove_ids"
    /\ UNCHANGED <<pipeline, batchVars, slugVars, headings, buildVars, toc_html, file, injected, result>>

NextIndex == AddIds \/ RemoveIds

SpecIndex == InitIndex /\ [][NextIndex]_vars

(***************************************************************************)
(* Specification of the document functions called on one parsed document.  *)
(* pc names the last call made.                                            *)
(***************************************************************************)
InitSoup ==
    /\ pc = "parsed"
    /\ soup \in {Parse(d) : d \in Docs}
    /\ text = <<>> /\ slug = <<>>
    /\ headings = <<>>
    /\ html_parts = <<>> /\ current_depth = 0 /\ open_lists = 0 /\ idx = 0
    /\ toc_html = <<>>
    /\ file = NoFile /\ injected = FALSE /\ result = NoOutcome
    /\ disk = NoDisk /\ batch = NoBatch
    /\ pipeline = NoPipeline

\* toc_html = build_toc_structure(headings)
BuildToc ==
    /\ toc_html' = build_toc_structure(headings)
    /\ pc' = "build"
    /\ UNCHANGED <<pipeline, batchVars, slugVars, headings, buildVars, docVars>>

\* injected = inject_toc(soup, toc_html)
InjectToc ==
    /\ NavCount(soup) < MaxNavs
    /\ LET r == inject_toc(soup, toc_html)
       IN  /\ soup' = r.soup
           /\ injected' = r.injected
    /\ pc' = "inject"
    /\ UNCHANGED <<pipeline, batchVars, slugVars, headings, buildVars, toc_html, file, result>>

\* remove_existing_toc(soup)
RemoveExistingToc ==
    /\ soup' = remove_existing_toc(soup)
    /\ pc' = "remove_toc"
    /\ UNCHANGED <<pipeline, batchVars, slugVars, headings, buildVars, toc_html, file, injected, result>>

NextSoup == AddIds \/ BuildToc \/ InjectToc \/ RemoveExistingToc \/ RemoveIds

SpecSoup == InitSoup /\ [][NextSoup]_vars

(***************************************************************************)
(* Specification of the per-file operations on one file.                   *)
(***************************************************************************)
Init ==
    /\ pc = "file"
    /\ file \in Files
    /\ text = <<>> /\ slug = <<>>
    /\ headings = <<>>
    /\ html_parts = <<>> /\ current_depth = 0 /\ open_lists = 0 /\ idx = 0
    /\ toc_html = <<>>
    /\ soup = Parse(<<>>) /\ injected = FALSE /\ result = NoOutcome
    /\ disk = NoDisk /\ batch = NoBatch
    /\ pipeline = NoPipeline

\* success, message = process_html_file(html_file, dry_run, force)
ProcessHtmlFile ==
    /\ pc = "file"
    /\ \E dry_run \in BOOLEAN, force \in BOOLEAN :
           LET r == process_html_file(file, dry_run, force)
           IN  /\ file' = r.file
               /\ result' = r.out
    /\ UNCHANGED <<pipeline, batchVars, pc, slugVars, headings, buildVars, toc_html, soup, injected>>

\* success, message = strip_toc_from_file(html_file, dry_run, force)
StripTocFromFile ==
    /\ pc = "file"
    /\ \E dry_run \in BOOLEAN, force \in BOOLEAN :
           LET r == strip_toc_from_file(file, dry_run, force)
           IN  /\ file' = r.file
               /\ result' = r.out
    /\ UNCHANGED <<pipeline, batchVars, pc, slugVars, headings, buildVars, toc_html, soup, injected>>

Next == ProcessHtmlFile \/ StripTocFromFile

Spec == Init /\ [][Next]_vars

(***************************************************************************)
(* Specification of the batch driver.                                      *)
(***************************************************************************)
InitBatch ==
    /\ pc = "main"
    /\ disk \in Disks
    /\ batch = NoBatch
    /\ pipeline = NoPipeline
    /\ text = <<>> /\ slug = <<>>
    /\ headings = <<>>
    /\ html_parts = <<>> /\ current_depth = 0 /\ open_lists = 0 /\ idx = 0
    /\ toc_html = <<>>
    /\ file = NoFile /\ soup = Parse(<<>>) /\ injected = FALSE /\ result = NoOutcome

\* main up to the loop: arguments, configuration, directory check, scan
MainStart ==
    /\ pc = "main"
    /\ \E strip \in BOOLEAN, dry_run \in BOOLEAN, force \in BOOLEAN :
       \E listing \in Rglob(disk.files) :
           LET b          == [batch EXCEPT !.args = Args(strip, dry_run, force)]
               html_files == scan_html_files(listing)
           IN  IF ~disk.config_ok \/ ~disk.exists
               THEN /\ batch' = [b EXCEPT !.status = 1]
                    /\ pc' = "exit"
               ELSE IF html_files = <<>>
               THEN /\ batch' = [b EXCEPT !.status = 0]
                    /\ pc' = "exit"
               ELSE /\ batch' = [b EXCEPT !.html_files = html_files]
                    /\ pc' = "loop"
    /\ UNCHANGED <<pipeline, disk, slugVars, headings, buildVars, toc_html, docVars>>

\* Variant of MainLoop that hands the last path of the list to the per-file
\* operation in every round
MainLoop_lastpath ==
    /\ pc = "loop"
    /\ batch.next <= Len(batch.html_files)
    /\ LET html_file == batch.html_files[Len(batch.html_files)]
           r == IF batch.args.strip
                THEN strip_toc_from_file(disk.files[html_file],
                                         batch.args.dry_run, batch.args.force)
                ELSE process_html_file(disk.files[html_file],
                                       batch.args.dry_run, batch.args.force)
       IN  /\ disk' = [disk EXCEPT !.files[html_file] = r.file]
           /\ batch' = [Tally(batch, batch.html_files[batch.next],
                              r.out.success, r.out.message)
                            EXCEPT !.next = @ + 1]
    /\ UNCHANGED <<pipeline, pc, slugVars, headings, buildVars, toc_html, docVars>>

\* One round of the loop of main over html_files
MainLoop ==
    /\ pc = "loop"
    /\ batch.next <= Len(batch.html_files)
    /\ LET html_file == batch.html_files[batch.next]
           r == IF batch.args.strip
                THEN strip_toc_from_file(disk.files[html_file],
                                         batch.args.dry_run, batch.args.force)
                ELSE process_html_file(disk.files[html_file],
                                       batch.args.dry_run, batch.args.force)
       IN  /\ disk' = [disk EXCEPT !.files[html_file] = r.file]
           /\ batch' = [Tally(batch, html_file, r.out.success, r.out.message)
                            EXCEPT !.next = @ + 1]
    /\ UNCHANGED <<pipeline, pc, slugVars, headings, buildVars, toc_html, docVars>>

\* The summary and the return of main
MainSummary ==
    /\ pc = "loop"
    /\ batch.next > Len(batch.html_files)
    /\ batch' = [batch EXCEPT !.status = ExitStatus(batch)]
    /\ pc' = "exit"
    /\ UNCHANGED <<pipeline, disk, slugVars, headings, buildVars, toc_html, docVars>>

NextBatch == MainStart \/ MainLoop \/ MainSummary

SpecBatch == InitBatch /\ [][NextBatch]_vars

(***************************************************************************)
(* Specification of the build pipeline.                                    *)
(***************************************************************************)
InitPipeline ==
    /\ pc = "pipeline"
    /\ pipeline = NoPipeline
    /\ text = <<>> /\ slug = <<>>
    /\ headings = <<>>
    /\ html_parts = <<>> /\ current_depth = 0 /\ open_lists = 0 /\ idx = 0
    /\ toc_html = <<>>
    /\ file = NoFile /\ soup = Parse(<<>>) /\ injected = FALSE /\ result = NoOutcome
    /\ disk = NoDisk /\ batch = NoBatch

\* pipeline.add(step)
PipelineAdd ==
    /\ pc = "pipeline"
    /\ Len(pipeline.steps) < MaxSteps
    /\ \E step \in StepPool :
           pipeline' = [pipeline EXCEPT !.steps = Append(@, step)]
    /\ UNCHANGED <<pc, batchVars, slugVars, headings, buildVars, toc_html, docVars>>

\* pipeline.execute_all(pass_through_args): the call and the start of the loop
ExecuteAll ==
    /\ pc = "pipeline"
    /\ pipeline' = [pipeline EXCEPT !.step_num = 1]
    /\ pc' = "execute_all"
    /\ UNCHANGED <<batchVars, slugVars, headings, buildVars, toc_html, docVars>>

\* One round of the loop of execute_all
ExecuteStep ==
    /\ pc = "execute_all"
    /\ pipeline.step_num <= Len(pipeline.steps)
    /\ LET success == StepExecute(pipeline.steps[pipeline.step_num])
           ran     == Append(pipeline.executed, pipeline.step_num)
       IN  IF success = "True"
           THEN /\ pipeline' = [pipeline EXCEPT !.executed = ran, !.step_num = @ + 1]
                /\ pc' = pc
           ELSE /\ pipeline' = [pipeline EXCEPT !.executed = ran, !.returned = success]
                /\ pc' = "returned"
    /\ UNCHANGED <<batchVars, slugVars, headings, buildVars, toc_html, docVars>>

\* return True after the loop
ExecuteAllReturn ==
    /\ pc = "execute_all"
    /\ pipeline.step_num > Len(pipeline.steps)
    /\ pipeline' = [pipeline EXCEPT !.returned = "True"]
    /\ pc' = "returned"
    /\ UNCHANGED <<batchVars, slugVars, headings, buildVars, toc_html, docVars>>

NextPipeline == PipelineAdd \/ ExecuteAll \/ ExecuteStep \/ ExecuteAllReturn

SpecPipeline == InitPipeline /\ [][NextPipeline]_vars

C9_MetaTags ==
    (pc = "slug_done" /\ text = MetaTagsText) => slug = MetaTagsSlug

(***************************************************************************)
(* Properties of the hierarchy builder.                                    *)
(***************************************************************************)
\* The markup read as a stack: TRUE iff every closing tag closes the element
\* on top of the stack and nothing is left open at the end
RECURSIVE BalancedFrom(_, _)
BalancedFrom(parts, stack) ==
    IF parts = <<>> THEN stack = <<>>
    ELSE IF Head(parts).kind = "open"
    THEN BalancedFrom(Tail(parts), Append(stack, Head(parts).tag))
    ELSE IF Head(parts).kind = "close"
    THEN /\ stack # <<>>
         /\ stack[Len(stack)] = Head(parts).tag
         /\ BalancedFrom(Tail(parts), SubSeq(stack, 1, Len(stack) - 1))
    ELSE BalancedFrom(Tail(parts), stack)

Balanced(parts) == BalancedFrom(parts, <<>>)

\* Number of lines of the given kind and tag
CountLines(parts, kind, tag) ==
    Cardinality({i \in 1..Len(parts) : parts[i].kind = kind /\ parts[i].tag = tag})

\* C1: for every sequence of levels in {h2,h3,h4} the list markup emitted by
\* build_toc_structure is balanced: every opened <ul> and <li> is closed by its
\* matching close token, and opens and closes are equal in number.
C1_Balanced ==
    pc = "build_done" =>
        /\ Balanced(toc_html)
        /\ CountLines(toc_html, "open", "ul") = CountLines(toc_html, "close", "ul")
        /\ CountLines(toc_html, "open", "li") = CountLines(toc_html, "close", "li")

(***************************************************************************)
(* Properties of the heading indexer.                                      *)
(***************************************************************************)
\* C2: the identifiers that one add_ids_to_headings pass assigns to h2/h3/h4
\* headings are pairwise distinct, whatever the heading texts are.
C2_UniqueIds ==
    pc = "add_ids" =>
        /\ \A i, j \in 1..Len(headings) : i # j => headings[i].id # headings[j].id
        /\ \A i, j \in HeadingsWithIds(soup) : i # j => soup.nodes[i].id # soup.nodes[j].id
        /\ \A i \in 1..Len(soup.nodes) :
               soup.nodes[i].tag \in TocLevels => i \in HeadingsWithIds(soup)

\* 'Overview', 'Overview', 'Overview 1': the third slug equals the second id
C2_Witness ==
    /\ pc = "add_ids"
    /\ Len(headings) = 3
    /\ headings[1].text = TxtOverview /\ headings[2].text = TxtOverview
    /\ headings[3].text = TxtOverview1
    /\ headings[2].id = slugify(TxtOverview1)
    /\ headings[3].id = slugify(TxtOverview1) \o <<"-", "1">>

\* C3: the list returned by add_ids_to_headings preserves document order.
C3_DocumentOrder ==
    pc = "add_ids" =>
        \A i, j \in 1..Len(headings) :
            i < j => headings[i].element < headings[j].element

\* The candidate identifiers of a slug: the bare slug for 0, slug-k for k > 0
Candidate(base_id, k) ==
    IF k = 0 THEN base_id ELSE base_id \o <<"-">> \o Decimal(k)

\* Positions in the returned list of the records with the given text
SameText(hs, txt) == {i \in 1..Len(hs) : hs[i].text = txt}

\* How many records with the text of record i come before it in the list
Rank(hs, i) == Cardinality({j \in SameText(hs, hs[i].text) : j < i})

PopTo(stack, tag) ==
    LET open == {k \in 1..Len(stack) : stack[k].tag = tag}
    IN  IF open = {} THEN stack
        ELSE SubSeq(stack, 1, (CHOOSE k \in open : \A m \in open : m <= k) - 1)

\* The link of the nearest enclosing list item that holds one, 0 for none
ParentLink(stack) ==
    LET items == {k \in 1..(Len(stack) - 1) : stack[k].tag = "li" /\ stack[k].link # 0}
    IN  IF items = {} THEN 0
        ELSE stack[CHOOSE k \in items : \A m \in items : m <= k].link

\* The links of the markup in order, each with the line of the link of the
\* list item it is nested in (0 for an item of the outermost contents list)
RECURSIVE Entries(_, _, _)
Entries(parts, i, stack) ==
    IF i > Len(parts) THEN <<>>
    ELSE IF parts[i].kind = "open"
    THEN Entries(parts, i + 1, Append(stack, [tag |-> parts[i].tag, link |-> 0]))
    ELSE IF parts[i].kind = "close"
    THEN Entries(parts, i + 1, PopTo(stack, parts[i].tag))
    ELSE IF parts[i].tag = "a"
    THEN <<[line |-> i, text |-> parts[i].text, href |-> parts[i].href,
            parent |-> ParentLink(stack)]>>
         \o Entries(parts, i + 1,
                    IF stack # <<>> /\ stack[Len(stack)].tag = "li"
                    THEN [stack EXCEPT ![Len(stack)].link = i]
                    ELSE stack)
    ELSE Entries(parts, i + 1, stack)

\* The labels of the items nested directly in the item whose link is on line p
ItemsUnder(es, p) ==
    LET Under(e) == e.parent = p
        sel == SelectSeq(es, Under)
    IN  [k \in 1..Len(sel) |-> sel[k].text]

\* The line of the link labelled txt, 0 when there is none
LinkOf(es, txt) ==
    IF \E k \in 1..Len(es) : es[k].text = txt
    THEN es[CHOOSE k \in 1..Len(es) : es[k].text = txt].line
    ELSE 0

\* The parsed document is the scenario document, with or without ids
IsScenario(sp) ==
    /\ Len(sp.nodes) = Len(ScenarioDoc)
    /\ \A i \in 1..Len(ScenarioDoc) :
           /\ sp.nodes[i].tag = ScenarioDoc[i].tag
           /\ sp.nodes[i].text = ScenarioDoc[i].text

\* C4: add_ids_to_headings followed by build_toc_structure over H2 'Setup',
\* H3 'Install', H3 'Configure', H2 'Usage' yields two top-level items, 'Setup'
\* holding 'Install' and 'Configure', and 'Usage' without children, and the
\* identifiers setup, install, configure, usage.
C4_Scenario ==
    (pc = "build" /\ IsScenario(soup) /\ Len(headings) = Len(ScenarioDoc)) =>
        LET es == Entries(toc_html, 1, <<>>)
        IN  /\ ItemsUnder(es, 0) = <<TxtSetup, TxtUsage>>
            /\ ItemsUnder(es, LinkOf(es, TxtSetup)) = <<TxtInstall, TxtConfigure>>
            /\ ItemsUnder(es, LinkOf(es, TxtUsage)) = <<>>
            /\ ItemsUnder(es, LinkOf(es, TxtInstall)) = <<>>
            /\ ItemsUnder(es, LinkOf(es, TxtConfigure)) = <<>>
            /\ [i \in 1..Len(soup.nodes) |-> soup.nodes[i].id]
                   = <<ToLower(TxtSetup), ToLower(TxtInstall),
                       ToLower(TxtConfigure), ToLower(TxtUsage)>>

\* C5: calling inject_toc twice on the same document with non-empty markup
\* leaves exactly one navigation block in the document.
C5_InjectTwice ==
    [][(pc = "inject" /\ injected /\ toc_html # <<>> /\ pc' = "inject" /\ injected')
           => NavCount(soup') = 1]_vars

(***************************************************************************)
(* Properties of the per-file operations.                                  *)
(***************************************************************************)
NoNav(content) == \A i \in 1..Len(content) : content[i].tag # "nav"

NoIds(content) ==
    \A i \in 1..Len(content) : content[i].tag \in TocLevels => ~content[i].hasId

\* C6: for every document, after a generate pass followed by a strip pass the
\* document contains no navigation block and no h2/h3/h4 heading carries an id.
C6_StripAfterGenerate ==
    [][(/\ result.op = "process" /\ result.success /\ ~result.dry_run
        /\ result'.op = "strip" /\ result'.success /\ ~result'.dry_run)
           => (NoNav(file'.content) /\ NoIds(file'.content))]_vars

ProcessStep == result'.op = "process" /\ result' # result

\* The step is a call of strip_toc_from_file that returned
StripStep == result'.op = "strip" /\ result' # result

DetectorSkips ==
    {"Skipped (up-to-date)", "Skipped (already processed, use --force to regenerate)"}

SourceNewer(f) == f.src_found /\ f.src_mtime > f.mtime

HasMarkers(content) == ~NoNav(content) /\ ~NoIds(content)

\* C11: when a source is identified and is newer than the document, a
\* non-forced process_html_file does not skip the document, also when the
\* document already contains a navigation block and headings with ids.
C11_NewerSourceProcessed ==
    [][(ProcessStep /\ ~result'.force /\ file.readable /\ SourceNewer(file))
           => result'.message.text \notin DetectorSkips]_vars

\* C12 as stated: a non-forced process_html_file skips a document only on the
\* marker rule; a document without a navigation block or without an id on an
\* in-window heading is never skipped by the change detector, whatever the
\* source timestamps are.
C12_Original ==
    [][(ProcessStep /\ ~result'.force /\ file.readable /\ ~HasMarkers(file.content))
           => result'.message.text \notin DetectorSkips]_vars

\* C12 amended: a non-forced process_html_file skips a document in the change
\* detector only on the timestamp rule (a source is identified and is not
\* newer than the document) or on the marker rule; a document without markers
\* is never skipped there when no source is identified or the source is newer.
C12_SkipOnlyOnRules ==
    [][(ProcessStep /\ ~result'.force /\ file.readable)
           => /\ result'.message.text = "Skipped (up-to-date)"
                  => (file.src_found /\ file.src_mtime <= file.mtime)
              /\ result'.message.text = "Skipped (already processed, use --force to regenerate)"
                  => HasMarkers(file.content)
              /\ (~HasMarkers(file.content)
                  /\ (~file.src_found \/ file.src_mtime > file.mtime))
                  => result'.message.text \notin DetectorSkips]_vars

\* A non-forced dry run added the TOC to a document that holds a navigation
\* block but no heading id, and whose source is newer
C12_Witness ==
    /\ result.op = "process" /\ ~result.force /\ result.dry_run
    /\ result.message.text = "TOC added"
    /\ SourceNewer(file)
    /\ ~NoNav(file.content) /\ NoIds(file.content)

\* C13: without force and without a newer source, a document that holds a
\* navigation block and an id on an in-window heading is skipped (success,
\* 'Skipped' message): its heading ids are unchanged and the file is not written.
C13_MarkerSkip ==
    [][(/\ ProcessStep /\ ~result'.force /\ file.readable
        /\ ~SourceNewer(file) /\ HasMarkers(file.content))
           => (/\ result'.success
               /\ IsSkipped(result'.message)
               /\ ~result'.wrote
               /\ file' = file)]_vars

\* A document with markers and no identified source was skipped on the marker rule
C13_Witness ==
    /\ result.op = "process" /\ ~result.force /\ ~result.dry_run
    /\ result.message.text = "Skipped (already processed, use --force to regenerate)"
    /\ ~file.src_found /\ HasMarkers(file.content)
    /\ \E i \in 1..Len(file.content) :
           file.content[i].tag = "h3" /\ file.content[i].hasId

\* Messages of the returns that come after the call of add_ids_to_headings
AfterIndexing ==
    {"Skipped (no h2/h3/h4 headings)", "Failed to inject TOC", "TOC added", "Error"}

\* C14: with force=True process_html_file never returns 'Skipped (up-to-date)'
\* or 'Skipped (already processed ...)', whatever the timestamps and markers
\* are, and a readable document always reaches heading indexing.
C14_ForceProceeds ==
    [][(ProcessStep /\ result'.force)
           => /\ result'.message.text \notin DetectorSkips
              /\ file.readable => result'.message.text \in AfterIndexing]_vars

\* A forced run went on for a document with markers whose source is not newer
C14_Witness ==
    /\ result.op = "process" /\ result.force /\ result.dry_run
    /\ result.message.text = "TOC added"
    /\ file.src_found /\ file.src_mtime <= file.mtime
    /\ HasMarkers(file.content)

(***************************************************************************)
(* Dry runs.                                                               *)
(***************************************************************************)
\* The step is a dry run of one of the two per-file operations
DryStep == result'.dry_run /\ result' # result /\ result'.op \in {"process", "strip"}

\* What the same call returns with dry_run=False
RealOut(f, op, force) ==
    IF op = "process"
    THEN process_html_file(f, FALSE, force).out
    ELSE strip_toc_from_file(f, FALSE, force).out

SameResult(a, b) == a.success = b.success /\ a.message = b.message

\* C15 as stated: with dry_run=True neither process_html_file nor
\* strip_toc_from_file writes the file, for any document and any force, and
\* the (success, message) result equals the result of the same call with
\* dry_run=False on the same input.
C15_Original ==
    [][DryStep
           => /\ file' = file
              /\ ~result'.wrote
              /\ SameResult(result', RealOut(file, result'.op, result'.force))]_vars

\* C15 amended: a dry run never writes, and its result equals the result of
\* the same call with dry_run=False unless that call fails in its write, in
\* which case the dry run reports the success the write would have produced.
C15_DryRun ==
    [][DryStep
           => /\ file' = file
              /\ ~result'.wrote
              /\ LET real == RealOut(file, result'.op, result'.force)
                 IN  \/ SameResult(result', real)
                     \/ /\ file.readable /\ ~file.writable
                        /\ result'.success /\ ~IsSkipped(result'.message)
                        /\ ~real.success /\ real.message.text = "Error"]_vars

\* A dry run reported 'TOC added' for a writable file and left it as it was
C15_Witness ==
    /\ result.op = "process" /\ result.dry_run /\ ~result.wrote
    /\ result.success /\ result.message.text = "TOC added"
    /\ file.writable /\ file.mtime < Now
    /\ NoNav(file.content)

(***************************************************************************)
(* Documents without headings, and the placement of the written block.     *)
(***************************************************************************)
NoWindowHeadings(content) ==
    \A i \in 1..Len(content) : content[i].tag \notin TocLevels

\* C19: for a document with no h2/h3/h4 heading build_toc_structure returns
\* the empty markup, inject_toc returns False and leaves the document as it
\* is, process_html_file reports a skip (success), and the resulting document
\* holds no navigation block.
C19_NoHeadings ==
    [][(ProcessStep /\ file.readable /\ NoWindowHeadings(file.content))
           => LET idd == add_ids_to_headings(remove_existing_toc(Parse(file.content)))
                  toc == build_toc_structure(idd.headings)
                  inj == inject_toc(idd.soup, toc)
              IN  /\ toc = <<>>
                  /\ ~inj.injected /\ inj.soup = idd.soup
                  /\ result'.success /\ IsSkipped(result'.message)
                  /\ NoNav(file'.content)]_vars

NavPositions(content) == {i \in 1..Len(content) : content[i].tag = "nav"}

H1Positions(content) == {i \in 1..Len(content) : content[i].tag = "h1"}

\* C20: after process_html_file returned 'TOC added' with dry_run=False the
\* written content holds exactly one navigation block, immediately after the
\* h1 when there is one and before the first content node otherwise.
C20_OneNavPlaced ==
    (result.op = "process" /\ result.wrote /\ result.message.text = "TOC added")
        => LET c == file.content
           IN  /\ Cardinality(NavPositions(c)) = 1
               /\ IF H1Positions(c) # {}
                  THEN \E i \in H1Positions(c) :
                           /\ \A j \in H1Positions(c) : i <= j
                           /\ i + 1 \in NavPositions(c)
                  ELSE 1 \in NavPositions(c)

(***************************************************************************)
(* Properties of the batch driver.                                         *)
(***************************************************************************)
\* main went past the configuration and the directory check
Scanned == disk.config_ok /\ disk.exists

\* The files that main is to visit: HTML files not named index.html
Discovered ==
    {path \in DOMAIN disk.files :
         EndsWith(Name(path), DotHtml) /\ Name(path) # IndexHtml}

\* The paths handed to the per-file operation so far, in the order of the calls
Calls == [k \in 1..Len(batch.output) |-> batch.output[k].rel_path]

\* p comes before q when, at the first component where they differ, p has
\* ended or has the component that is smaller as a string
PathBefore(p, q) ==
    \E k \in 1..Len(q) :
        /\ k <= Len(p) + 1
        /\ \A j \in 1..(k - 1) : p[j] = q[j]
        /\ k <= Len(p) => StrLess(p[k], q[k])

Failures == {k \in 1..Len(batch.output) : ~batch.output[k].success}

\* C16: in a batch run every discovered file is handed to the per-file
\* operation exactly once, in lexicographic path order, and the failure of
\* one file never prevents the processing of the later files.
C16_EveryFileOnce ==
    /\ (pc = "loop" /\ Scanned)
           => /\ Len(Calls) = batch.next - 1
              /\ \A k \in 1..Len(Calls) : Calls[k] = batch.html_files[k]
    /\ (pc \in {"loop", "exit"} /\ Scanned)
           => /\ \A k \in 1..Len(Calls) : Calls[k] \in Discovered
              /\ \A j, k \in 1..Len(Calls) : j < k => PathBefore(Calls[j], Calls[k])
    /\ (pc = "exit" /\ Scanned)
           => /\ {Calls[k] : k \in 1..Len(Calls)} = Discovered
              /\ Len(Calls) = Cardinality(Discovered)

\* A run with an index.html in the directory ended after two files; the first
\* one failed, and the file in the folder was visited before the file whose
\* name extends the folder's name
C16_Witness ==
    /\ pc = "exit" /\ Len(Calls) = 2
    /\ 1 \in Failures
    /\ Calls[1] = <<<<"a">>, Html(<<"b">>)>>
    /\ Calls[2] = <<Html(<<"a", "-", "b">>)>>
    /\ <<IndexHtml>> \in DOMAIN disk.files

\* C17 as stated: the exit status of main is non-zero if at least one
\* document ended in failure and zero otherwise.
C17_Original ==
    pc = "exit" => (batch.status # 0 <=> Failures # {})

\* C17 amended: when the configuration loads and the environment directory
\* exists, the exit status is 1 if at least one document ended in failure and
\* 0 otherwise, skipped documents never making it non-zero; when the
\* configuration fails to load or the directory is missing main returns 1
\* without visiting a document.
C17_ExitStatus ==
    pc = "exit"
        => IF Scanned
           THEN /\ batch.status = (IF Failures # {} THEN 1 ELSE 0)
                /\ (\A k \in 1..Len(batch.output) :
                        batch.output[k].success) => batch.status = 0
           ELSE batch.status = 1 /\ batch.output = <<>>

\* A run in which every document was skipped ended with status 0
C17_Witness ==
    /\ pc = "exit" /\ Scanned /\ batch.status = 0
    /\ Len(batch.output) >= 2
    /\ \A k \in 1..Len(batch.output) : IsSkipped(batch.output[k].message)

CountOf(kind) ==
    Cardinality({k \in 1..Len(batch.output) : batch.output[k].counted = kind})

\* C18: at every point of the loop each visited file is counted in exactly
\* one of processed, skipped and errors, so the three counters add up to the
\* number of files visited, and a skip is always counted as skipped.
C18_Counters ==
    (pc \in {"loop", "exit"})
        => /\ batch.success_count + batch.skip_count + batch.error_count
                  = Len(batch.output)
           /\ batch.success_count = CountOf("processed")
           /\ batch.skip_count = CountOf("skipped")
           /\ batch.error_count = CountOf("error")
           /\ \A k \in 1..Len(batch.output) :
                  IsSkipped(batch.output[k].message)
                      => batch.output[k].success /\ batch.output[k].counted = "skipped"
           /\ batch.skip_count
                  = Cardinality({k \in 1..Len(batch.output) :
                                     IsSkipped(batch.output[k].message)})

\* In the middle of a loop one file was processed, one skipped and one failed
C18_Witness ==
    /\ pc = "loop"
    /\ batch.success_count = 1 /\ batch.skip_count = 1 /\ batch.error_count = 1

(***************************************************************************)
(* The depth window of the heading indexer.                                *)
(***************************************************************************)
\* Records of the list hs that point at the element at position i
RecordsOf(hs, i) == {k \in 1..Len(hs) : hs[k].element = i}

\* C21: after add_ids_to_headings an element is in the returned list, exactly
\* once, and carries the assigned id if and only if it is an h2, h3 or h4; h1
\* and h5 headings are never listed, and neither add_ids_to_headings nor
\* remove_ids_from_headings changes their attributes.
C21_DepthWindow ==
    [][/\ pc' = "add_ids"
           => \A i \in 1..Len(soup.nodes) :
                  IF soup.nodes[i].tag \in TocLevels
                  THEN /\ Cardinality(RecordsOf(headings', i)) = 1
                       /\ soup'.nodes[i].hasId
                       /\ \A k \in RecordsOf(headings', i) :
                              /\ headings'[k].id = soup'.nodes[i].id
                              /\ headings'[k].level = soup.nodes[i].tag
                  ELSE /\ RecordsOf(headings', i) = {}
                       /\ soup'.nodes[i] = soup.nodes[i]
       /\ pc' = "remove_ids"
           => \A i \in 1..Len(soup.nodes) :
                  IF soup.nodes[i].tag \in TocLevels
                  THEN ~soup'.nodes[i].hasId
                  ELSE soup'.nodes[i] = soup.nodes[i]]_vars

\* An h1 without id, an h5 that kept its own id and an indexed h2 after a pass
C21_Witness ==
    /\ pc = "add_ids"
    /\ Len(headings) = 1
    /\ \E i, j, k \in 1..Len(soup.nodes) :
           /\ soup.nodes[i].tag = "h1" /\ ~soup.nodes[i].hasId
           /\ soup.nodes[j].tag = "h5" /\ soup.nodes[j].id = <<"x">>
           /\ soup.nodes[k].tag = "h2" /\ soup.nodes[k].hasId
           /\ headings[1].element = k

(***************************************************************************)
(* Running the generate pass again.                                        *)
(***************************************************************************)
\* The last call was a process_html_file that wrote the file with a TOC
FirstRunWrote ==
    result.op = "process" /\ result.wrote /\ result.message.text = "TOC added"

\* C22: running process_html_file a second time, forced or not, on the file
\* written by a first successful run yields the same heading identifiers and
\* a file identical to the first run's output, holding exactly one
\* navigation block.
C22_GenerateTwice ==
    [][(FirstRunWrote /\ result'.op = "process")
           => /\ result'.success
              /\ file'.content = file.content
              /\ Cardinality(NavPositions(file'.content)) = 1]_vars

(***************************************************************************)
(* The counters of the hierarchy builder.                                  *)
(***************************************************************************)
\* C23: after each heading record has been processed open_lists equals the
\* nesting depth of that record (level minus 1: h2 = 1, h3 = 2, h4 = 3), for
\* every sequence of levels in {h2,h3,h4}; so open_lists never falls below 1
\* inside the loop.
C23_OpenLists ==
    pc = "build_loop"
        => /\ open_lists >= 1
           /\ idx > 1
                  => open_lists = LevelNum(TocHeadings(headings)[idx - 1].level) - 1

\* After an h4 and then an h2 record the counter is back at 1
C23_Witness ==
    /\ pc = "build_loop" /\ idx = 3
    /\ headings[1].level = "h4" /\ headings[2].level = "h2"
    /\ open_lists = 1

\* C24: current_depth is initialised to the depth of the first record, so the
\* list item of the first record is emitted directly in the outermost
\* contents list, without a nested list opened before it, whether the first
\* record is h2, h3 or h4.
C24_FirstRecord ==
    /\ (pc = "build_loop" /\ idx = 1)
           => current_depth = LevelNum(TocHeadings(headings)[1].level)
    /\ (pc = "build_loop" /\ idx = 2)
           => /\ html_parts[Len(TocHeader)] = ContentUl
              /\ html_parts[Len(TocHeader) + 1].kind = "open"
              /\ html_parts[Len(TocHeader) + 1].tag = "li"

(***************************************************************************)
(* The links of the navigation markup.                                     *)
(***************************************************************************)
\* Lines of the markup that hold a link
LinkLines(parts) == {i \in 1..Len(parts) : parts[i].kind = "leaf" /\ parts[i].tag = "a"}

\* Lines of the markup that open the list item of an entry
ItemLines(parts) ==
    {i \in 1..Len(parts) : parts[i].kind = "open" /\ parts[i].tag = "li" /\ parts[i].cls = ""}

\* In-window headings of the parsed document that carry the identifier id
Targets(sp, id) == {i \in HeadingsWithIds(sp) : sp.nodes[i].id = id}

\* The markup holds one list item with one link per record, in record order,
\* with the record's identifier as target and the record's text as label
OneLinkPerRecord(hs, parts) ==
    LET links == SortedSeq(LinkLines(parts))
    IN  /\ Len(links) = Len(hs)
        /\ Cardinality(ItemLines(parts)) = Len(hs)
        /\ \A k \in 1..Len(links) :
               /\ parts[links[k]].href = hs[k].id
               /\ parts[links[k]].text = hs[k].text
               /\ links[k] - 1 \in ItemLines(parts)
        /\ \A i \in ItemLines(parts) : i + 1 \in LinkLines(parts)

\* C25: build_toc_structure emits exactly one list item holding exactly one
\* link per record, in record order, whose target is the record's identifier
\* and whose label is the record's text; so after add_ids_to_headings and
\* build_toc_structure every link of the markup targets the id carried by
\* exactly one in-window heading of the document.
C25_Links ==
    [][(pc = "add_ids" /\ pc' = "build")
           => /\ OneLinkPerRecord(TocHeadings(headings), toc_html')
              /\ \A i \in LinkLines(toc_html') :
                     Cardinality(Targets(soup', toc_html'[i].href)) = 1]_vars

\* Markup built for two headings 'Setup' of one document: the links target
\* setup and setup-1, the ids that the two headings carry
C25_Witness ==
    /\ pc = "build"
    /\ Len(headings) = 2
    /\ headings[1].id = <<"s", "e", "t", "u", "p">>
    /\ headings[2].id = <<"s", "e", "t", "u", "p", "-", "1">>
    /\ \A k \in 1..2 : soup.nodes[headings[k].element].id = headings[k].id
    /\ OneLinkPerRecord(headings, toc_html)

(***************************************************************************)
(* The files of a batch run.                                               *)
(***************************************************************************)
\* C26: at every point of a batch run every file the loop has not yet reached
\* has its original content; a file is written at most once per run and only
\* during its own iteration; files already written stay as written when a
\* later file fails.
C26_WriteFrame ==
    [][/\ DOMAIN disk'.files = DOMAIN disk.files
       /\ \A path \in DOMAIN disk.files :
              disk'.files[path] # disk.files[path]
                  => /\ pc = "loop" /\ ~batch.args.dry_run
                     /\ batch.next <= Len(batch.html_files)
                     /\ path = batch.html_files[batch.next]
                     /\ batch'.next = batch.next + 1
                     /\ \A k \in 1..Len(batch.html_files) :
                            batch.html_files[k] = path => k = batch.next
                     /\ batch'.output[batch.next].success]_vars

\* In a run over three files the first was written, the second failed and the
\* third has not been reached and is as it was
C26_Witness ==
    /\ pc = "loop" /\ batch.next = 3 /\ Len(batch.html_files) = 3
    /\ batch.output[1].counted = "processed"
    /\ disk.files[batch.html_files[1]].mtime = Now
    /\ batch.output[2].counted = "error"
    /\ disk.files[batch.html_files[3]].mtime < Now

(***************************************************************************)
(* Properties of the build pipeline.                                       *)
(***************************************************************************)
\* The main function of the step reports a failure: SystemExit with a
\* non-zero code, or a non-zero return value
ReportsFailure(step) ==
    step.main_func.kind \in {"exit", "return"} /\ step.main_func.code # 0

\* C27: execute_all runs the steps strictly in the order they were added and
\* returns True only if every step succeeded: when the main of a step reports
\* a failure, by raising SystemExit with a non-zero code or by returning a
\* non-zero status as the main of the TOC step does, execute_all returns
\* False and no later step is executed.
C27_ExecuteAll ==
    pc = "returned"
        => /\ \A k \in 1..Len(pipeline.executed) : pipeline.executed[k] = k
           /\ pipeline.returned = "True"
                  => /\ Len(pipeline.executed) = Len(pipeline.steps)
                     /\ \A k \in 1..Len(pipeline.steps) :
                            ~ReportsFailure(pipeline.steps[k])
           /\ \A k \in 1..Len(pipeline.executed) :
                  ReportsFailure(pipeline.steps[k])
                      => /\ pipeline.returned = "False"
                         /\ Len(pipeline.executed) = k

(***************************************************************************)
(* The levels on the generate path and the list tokens of the builder.     *)
(***************************************************************************)
\* C28: the levels of the records that add_ids_to_headings returns, which
\* process_html_file hands to build_toc_structure, never decrease (all h2,
\* then all h3, then all h4), so the builder emits no line of its 'going
\* shallower' branch for them.
C28_LevelsNonDecreasing ==
    pc = "add_ids"
        => /\ \A j, k \in 1..Len(headings) :
                  j < k => LevelNum(headings[j].level) <= LevelNum(headings[k].level)
           /\ LET st == BuildEntries(BuildInit, TocHeadings(headings))
              IN  \A i \in 1..Len(st.parts) :
                      ~(st.parts[i].kind = "close" /\ st.parts[i].tag = "ul")

\* A document with an h3 before an h2: the returned list has the h2 first
C28_Witness ==
    /\ pc = "add_ids"
    /\ Len(soup.nodes) >= 2
    /\ soup.nodes[1].tag = "h3" /\ soup.nodes[2].tag = "h2"
    /\ Len(headings) >= 2
    /\ headings[1].level = "h2" /\ headings[1].element = 2
    /\ headings[2].level = "h3" /\ headings[2].element = 1

\* The lines of the contents list: from its opening line to the end of what
\* the loops have appended
ContentsLines ==
    SubSeq(html_parts, Len(TocHeader),
           IF pc = "build_done" THEN Len(html_parts) - Len(TocFooter) ELSE Len(html_parts))

\* C29: for every sequence of levels in {h2,h3,h4} the number of <ul> open
\* tokens emitted for the contents list (the section list and one per unit of
\* depth increase) equals the number of </ul> close tokens emitted for it (one
\* per unit of depth decrease and those of the closing loop), and the closing
\* loop ends with open_lists = 0.
C29_UlTokens ==
    /\ pc \in {"build_loop", "build_close"}
           => CountLines(ContentsLines, "open", "ul")
                  - CountLines(ContentsLines, "close", "ul") = open_lists
    /\ (pc = "build_done" /\ toc_html # <<>>)
           => /\ open_lists = 0
              /\ CountLines(ContentsLines, "open", "ul")
                     = CountLines(ContentsLines, "close", "ul")

\* Markup built for h2, h4, h3: three lists opened and three closed
C29_Witness ==
    /\ pc = "build_done" /\ Len(headings) = 3
    /\ headings[1].level = "h2" /\ headings[2].level = "h4" /\ headings[3].level = "h3"
    /\ open_lists = 0
    /\ CountLines(ContentsLines, "open", "ul") = 3
    /\ CountLines(ContentsLines, "close", "ul") = 3

(***************************************************************************)
(* The form of the assigned identifiers.                                   *)
(***************************************************************************)
\* C30: every identifier that add_ids_to_headings assigns is a non-empty
\* string over [a-z0-9-] that does not begin with a hyphen, also for headings
\* whose text has an empty slug and for the second and later such headings.
C30_IdForm ==
    pc = "add_ids"
        => \A k \in 1..Len(headings) :
               /\ headings[k].id # <<>>
               /\ Range(headings[k].id) \subseteq SlugChars
               /\ headings[k].id[1] # "-"

====
